---- MODULE Spec2Model ----
\* Model of app/kudos/management/commands/sync_kudos.py: one run of the
\* sync_kudos management command (Command.handle and its three strategies),
\* with the chain, the OpenSea API and the Token table as its environment.
EXTENDS Integers, Sequences, FiniteSets, TLC

VARIABLES
    options,        \* parsed command line: network, syncmethod, start, rewind, catchup
    web3_version,   \* web3.__version__
    totalSupply,    \* the contract's totalSupply()
    headBlock,      \* number of the 'latest' block
    store,          \* ids present in the Token table
    store0,         \* the Token table when the run began
    pc,             \* position of the run
    exc,            \* exception that ended the run, "none" otherwise
    excLine,        \* source line of the raise, 0 otherwise
    fromBlock,      \* handle's local fromBlock / filter_sync's parameter
    start_id,       \* handle's local start_id (str, int or None)
    invoked,        \* the strategy handle called, "none" otherwise
    start_arg,      \* the int(start_id) passed to id_sync / opensea_sync
    H,              \* head block (filter) or total supply (id, opensea) when handle ran
    entries,        \* event_filter.get_all_entries()
    ei,             \* number of entries the for loop of filter_sync has consumed
    end_id,         \* local end_id of id_sync / opensea_sync
    kudos_enum,     \* local kudos_enum of id_sync
    more_kudos,     \* local more_kudos of id_sync
    token_ids,      \* the part of range(start_id, end_id + 1) not yet iterated
    r,              \* last response of requests.get
    io              \* log of the I/O the run performed, in order

vars == <<options, web3_version, totalSupply, headBlock, store, store0, pc, exc,
          excLine, fromBlock, start_id, invoked, start_arg, H, entries, ei,
          end_id, kudos_enum, more_kudos, token_ids, r, io>>

-----------------------------------------------------------------------------
\* Bounds of the model

MaxSupply == 3
MaxHead == 2
MaxRewind == 3
MaxStart == 4
MaxStoreId == 3
MaxEvents == 2
MaxEventId == 2

-----------------------------------------------------------------------------
\* Python values

None == [some |-> FALSE]
Some(v) == [some |-> TRUE, v |-> v]

DigitChars == <<"0", "1", "2", "3", "4", "5", "6", "7", "8", "9">>
HexChars == DigitChars \o <<"a", "b", "c", "d", "e", "f">>

Earliest == <<"e", "a", "r", "l", "i", "e", "s", "t">>
Latest == <<"l", "a", "t", "e", "s", "t">>

RECURSIVE DecStr(_)
DecStr(n) ==
    IF n < 10 THEN <<DigitChars[n + 1]>>
    ELSE DecStr(n \div 10) \o <<DigitChars[(n % 10) + 1]>>

PyStr(n) == IF n < 0 THEN <<"-">> \o DecStr(0 - n) ELSE DecStr(n)

IsDigitChar(c) == \E d \in 1..10 : DigitChars[d] = c

DigitVal(c) == (CHOOSE d \in 1..10 : DigitChars[d] = c) - 1

\* str.isdigit(): at least one character and all of them digits
isdigit(s) == Len(s) > 0 /\ \A i \in 1..Len(s) : IsDigitChar(s[i])

RECURSIVE DigitsVal(_)
DigitsVal(s) ==
    IF s = <<>> THEN 0
    ELSE DigitsVal(SubSeq(s, 1, Len(s) - 1)) * 10 + DigitVal(s[Len(s)])

\* int(s) of a str: an optional sign and decimal digits, ValueError otherwise
PyIntValid(s) == isdigit(s) \/ (Len(s) > 1 /\ s[1] = "-" /\ isdigit(Tail(s)))

PyIntVal(s) == IF s[1] = "-" THEN 0 - DigitsVal(Tail(s)) ELSE DigitsVal(s)

\* truth value of an option: None, "" and 0 are falsy
TruthyStr(o) == o.some /\ o.v # <<>>
TruthyInt(o) == o.some /\ o.v # 0

\* bytes.hex() with the "0x" prefix of HexBytes
RECURSIVE hex(_)
hex(b) ==
    IF b = <<>> THEN <<"0", "x">>
    ELSE hex(SubSeq(b, 1, Len(b) - 1))
             \o <<HexChars[(b[Len(b)] \div 16) + 1], HexChars[(b[Len(b)] % 16) + 1]>>

\* range(a, b + 1)
RECURSIVE Range(_, _)
Range(a, b) == IF a > b THEN <<>> ELSE <<a>> \o Range(a + 1, b)

-----------------------------------------------------------------------------
\* The command line (add_arguments)

Networks == {"localhost", "rinkeby", "mainnet"}
SyncMethods == {"filter", "id", "opensea"}

StartValues ==
    {DecStr(n) : n \in 0..MaxStart}
        \cup {<<>>, <<"-", "1">>, <<"x">>, Earliest, Latest}

\* exactly one of --start, --rewind, --catchup (mutually exclusive, required)
CursorSpecs ==
    {[start |-> Some(s), rewind |-> None, catchup |-> FALSE] : s \in StartValues}
        \cup {[start |-> None, rewind |-> Some(n), catchup |-> FALSE] : n \in 0..MaxRewind}
        \cup {[start |-> None, rewind |-> None, catchup |-> TRUE]}

Options ==
    {[network |-> n, syncmethod |-> m, start |-> c.start, rewind |-> c.rewind,
      catchup |-> c.catchup] : n \in Networks, m \in SyncMethods, c \in CursorSpecs}

-----------------------------------------------------------------------------
\* The store and the I/O log

\* Token.objects.aggregate(Max('id'))['id__max']: None on an empty table
MaxKnownId(s) ==
    IF s = {} THEN None ELSE Some(CHOOSE m \in s : \A x \in s : x <= m)

\* effect of kudos_contract.sync_db / sync_db_without_txid on the Token table
Upsert(s, id) == s \cup {id}

Io(op, by, id, txid) == [op |-> op, by |-> by, id |-> id, txid |-> txid]

IsUpsert(e) == e.op = "upsert"
IsRequest(e) == e.op = "http"
IsSupplyRead(e) == e.op = "totalSupply"
ByIdSync(e) == e.by = "id_sync"

Ids(log) == [i \in 1..Len(log) |-> log[i].id]

Upserts == SelectSeq(io, IsUpsert)
Requests == SelectSeq(io, IsRequest)

NoResponse == [status |-> 0, body |-> "none", token_id |-> <<>>, txhash |-> <<>>]
Unbound == [kind |-> "unbound"]
Sym(s) == [kind |-> "sym", s |-> s]
Num(n) == [kind |-> "num", n |-> n]

Terminal == {"done", "error"}

-----------------------------------------------------------------------------
Init ==
    /\ options \in Options
    /\ web3_version \in {"4.7.2", "4.8.1"}
    /\ totalSupply \in 0..MaxSupply
    /\ headBlock \in 0..MaxHead
    /\ store0 \in {1..k : k \in 0..MaxStoreId}
    /\ store = store0
    /\ pc = "handle"
    /\ exc = "none"
    /\ excLine = 0
    /\ fromBlock = Unbound
    /\ start_id = Unbound
    /\ invoked = "none"
    /\ start_arg = 0
    /\ H = 0
    /\ entries = <<>>
    /\ ei = 0
    /\ end_id = 0
    /\ kudos_enum = 0
    /\ more_kudos = FALSE
    /\ token_ids = <<>>
    /\ r = NoResponse
    /\ io = <<>>

-----------------------------------------------------------------------------
\* Raising an exception ends the run

Raise(type, line) ==
    /\ pc' = "error"
    /\ exc' = type
    /\ excLine' = line

NoRaise(next) ==
    /\ pc' = next
    /\ UNCHANGED <<exc, excLine>>

env == <<options, web3_version, headBlock, store0>>
filterLocals == <<entries, ei>>
idLocals == <<end_id, kudos_enum, more_kudos>>
openseaLocals == <<token_ids, r>>

-----------------------------------------------------------------------------
\* handle, syncmethod == 'filter' (lines 124-141)

\* the --start values the filter branch lets through (lines 126-131)
FilterStartError(s) ==
    IF isdigit(s) THEN <<"RuntimeError", 127>>
    ELSE IF s \in {Earliest, Latest} THEN <<"none", 0>>
    ELSE <<"ValueError", 131>>

\* line 135
RewindBlock(head, rewind) == head - rewind

HandleFilter ==
    /\ pc = "handle"
    /\ options.syncmethod = "filter"
    /\ H' = headBlock
    /\ IF TruthyStr(options.start)
       THEN IF FilterStartError(options.start.v)[1] # "none"
            THEN /\ Raise(FilterStartError(options.start.v)[1],
                          FilterStartError(options.start.v)[2])
                 /\ UNCHANGED <<fromBlock, invoked, io>>
            ELSE /\ fromBlock' = Sym(options.start.v)
                 /\ invoked' = "filter_sync"
                 /\ NoRaise("filter_sync")
                 /\ UNCHANGED io
       ELSE IF TruthyInt(options.rewind)
       THEN IF web3_version # "4.7.2"
            THEN /\ Raise("RuntimeError", 134)
                 /\ UNCHANGED <<fromBlock, invoked, io>>
            ELSE /\ io' = Append(io, Io("getBlock", "handle", 0, <<>>))
                 /\ fromBlock' = Num(RewindBlock(headBlock, options.rewind.v))
                 /\ invoked' = "filter_sync"
                 /\ NoRaise("filter_sync")
       ELSE IF options.catchup
       THEN /\ Raise("ValueError", 137)
            /\ UNCHANGED <<fromBlock, invoked, io>>
       ELSE \* fromBlock was never assigned: logger.info(fromBlock) fails
            /\ Raise("UnboundLocalError", 139)
            /\ UNCHANGED <<fromBlock, invoked, io>>
    /\ UNCHANGED <<env, totalSupply, store, start_id, start_arg, filterLocals,
                   idLocals, openseaLocals>>

-----------------------------------------------------------------------------
\* handle, the other sync methods (lines 144-154)

StrVal(s) == [kind |-> "str", s |-> s]
IntVal(n) == [kind |-> "int", n |-> n]
NoneVal == [kind |-> "none"]

\* line 147
RewindStartId(supply, rewind) == supply - rewind

\* resuming after the last known id instead of at it
CatchupStartIdAfterMax(s) ==
    IF MaxKnownId(s).some THEN IntVal(MaxKnownId(s).v + 1) ELSE NoneVal

\* line 149
CatchupStartId(s) ==
    IF MaxKnownId(s).some THEN IntVal(MaxKnownId(s).v) ELSE NoneVal

\* lines 144-150: the value of start_id, Unbound when no branch assigns it
ResolveStartId ==
    IF TruthyStr(options.start) THEN StrVal(options.start.v)
    ELSE IF TruthyInt(options.rewind)
         THEN IntVal(RewindStartId(totalSupply, options.rewind.v))
    ELSE IF options.catchup THEN CatchupStartId(store)
    ELSE Unbound

\* the I/O lines 144-150 perform
ResolveIo ==
    IF TruthyStr(options.start) THEN <<>>
    ELSE IF TruthyInt(options.rewind) THEN <<Io("totalSupply", "handle", 0, <<>>)>>
    ELSE IF options.catchup THEN <<Io("storeQuery", "handle", 0, <<>>)>>
    ELSE <<>>

\* int(start_id) at lines 152 and 154: the exception it raises, "none" if it returns
IntError(v) ==
    CASE v.kind = "unbound" -> "UnboundLocalError"
      [] v.kind = "none" -> "TypeError"
      [] v.kind = "str" -> IF PyIntValid(v.s) THEN "none" ELSE "ValueError"
      [] v.kind = "int" -> "none"

IntOf(v) == IF v.kind = "str" THEN PyIntVal(v.s) ELSE v.n

DispatchLine == IF options.syncmethod = "id" THEN 152 ELSE 154

HandleOther ==
    /\ pc = "handle"
    /\ options.syncmethod \in {"id", "opensea"}
    /\ H' = totalSupply
    /\ start_id' = ResolveStartId
    /\ io' = io \o ResolveIo
    /\ IF IntError(ResolveStartId) # "none"
       THEN /\ Raise(IntError(ResolveStartId), DispatchLine)
            /\ UNCHANGED <<invoked, start_arg>>
       ELSE /\ start_arg' = IntOf(ResolveStartId)
            /\ invoked' = IF options.syncmethod = "id" THEN "id_sync" ELSE "opensea_sync"
            /\ NoRaise(IF options.syncmethod = "id" THEN "id_sync" ELSE "opensea_sync")
    /\ UNCHANGED <<env, totalSupply, store, fromBlock, filterLocals, idLocals,
                   openseaLocals>>

-----------------------------------------------------------------------------
\* filter_sync (lines 86-96)

EventIds == 1..MaxEventId
TxHashes == {<<10, 255>>}
Events == [_tokenId : EventIds, transactionHash : TxHashes]

RECURSIVE SeqsUpTo(_, _)
SeqsUpTo(S, n) ==
    IF n = 0 THEN {<<>>}
    ELSE SeqsUpTo(S, n - 1)
             \cup {Append(q, x) : q \in {t \in SeqsUpTo(S, n - 1) : Len(t) = n - 1}, x \in S}

\* lines 87-88: createFilter(fromBlock).get_all_entries() returns the matching events
FilterSyncStart ==
    /\ pc = "filter_sync"
    /\ \E es \in SeqsUpTo(Events, MaxEvents) : entries' = es
    /\ ei' = 0
    /\ io' = Append(io, Io("createFilter", "filter_sync", 0, <<>>))
    /\ NoRaise("filter_loop")
    /\ UNCHANGED <<env, totalSupply, store, fromBlock, start_id, invoked, start_arg,
                   H, idLocals, openseaLocals>>

\* lines 88-96: one iteration of the for loop; sync_db may raise
FilterSyncStep ==
    /\ pc = "filter_loop"
    /\ ei < Len(entries)
    /\ ei' = ei + 1
    /\ \E raised \in BOOLEAN :
         IF raised
         THEN /\ Raise("LedgerError", 96)
              /\ UNCHANGED <<store, io>>
         ELSE /\ store' = Upsert(store, entries[ei + 1]._tokenId)
              /\ io' = Append(io, Io("upsert", "filter_sync", entries[ei + 1]._tokenId,
                                     hex(entries[ei + 1].transactionHash)))
              /\ NoRaise("filter_loop")
    /\ UNCHANGED <<env, totalSupply, fromBlock, start_id, invoked, start_arg, H,
                   entries, idLocals, openseaLocals>>

\* treating an empty event set as an error
FilterSyncDoneRejectsEmpty ==
    /\ pc = "filter_loop"
    /\ ei = Len(entries)
    /\ IF entries = <<>> THEN Raise("ValueError", 88) ELSE NoRaise("done")
    /\ UNCHANGED <<env, totalSupply, store, fromBlock, start_id, invoked, start_arg,
                   H, filterLocals, idLocals, openseaLocals, io>>

\* the for loop is exhausted and filter_sync returns (line 141)
FilterSyncDone ==
    /\ pc = "filter_loop"
    /\ ei = Len(entries)
    /\ NoRaise("done")
    /\ UNCHANGED <<env, totalSupply, store, fromBlock, start_id, invoked, start_arg,
                   H, filterLocals, idLocals, openseaLocals, io>>

-----------------------------------------------------------------------------
\* id_sync (lines 98-110)

\* lines 101-103
IdSyncStart ==
    /\ pc = "id_sync"
    /\ end_id' = totalSupply
    /\ kudos_enum' = start_arg
    /\ more_kudos' = TRUE
    /\ io' = Append(io, Io("totalSupply", "id_sync", 0, <<>>))
    /\ NoRaise("id_loop")
    /\ UNCHANGED <<env, totalSupply, store, fromBlock, start_id, invoked, start_arg,
                   H, filterLocals, openseaLocals>>

\* re-reading the supply at every test
LoopBoundRereadsSupply(end, supply) == supply

\* the bound the loop tests its counter against (line 109)
LoopBound(end, supply) == end

\* stopping one id early
MoreKudosOffByOne(enum, end) == ~(enum >= end)

\* lines 109-110: the value of more_kudos after the test
MoreKudos(enum, end) == ~(enum > end)

\* lines 105-110: one iteration of the while loop; sync_db_without_txid may raise
IdSyncStep ==
    /\ pc = "id_loop"
    /\ more_kudos
    /\ \E raised \in BOOLEAN :
         IF raised
         THEN /\ Raise("LedgerError", 106)
              /\ UNCHANGED <<store, io, kudos_enum, more_kudos>>
         ELSE /\ store' = Upsert(store, kudos_enum)
              /\ io' = Append(io, Io("upsert", "id_sync", kudos_enum, <<>>))
              /\ kudos_enum' = kudos_enum + 1
              /\ more_kudos' = MoreKudos(kudos_enum + 1, LoopBound(end_id, totalSupply))
              /\ NoRaise("id_loop")
    /\ UNCHANGED <<env, totalSupply, fromBlock, start_id, invoked, start_arg, H,
                   end_id, filterLocals, openseaLocals>>

\* the while condition is false and id_sync returns
IdSyncDone ==
    /\ pc = "id_loop"
    /\ ~more_kudos
    /\ NoRaise("done")
    /\ UNCHANGED <<env, totalSupply, store, fromBlock, start_id, invoked, start_arg,
                   H, filterLocals, idLocals, openseaLocals, io>>

-----------------------------------------------------------------------------
\* opensea_sync (lines 60-84)

\* lines 61-66
OpenseaSupported(network) == network \in {"rinkeby", "mainnet"}

\* lines 61-69
OpenseaSyncStart ==
    /\ pc = "opensea_sync"
    /\ IF OpenseaSupported(options.network)
       THEN /\ end_id' = totalSupply
            /\ token_ids' = Range(start_arg, totalSupply)
            /\ io' = Append(io, Io("totalSupply", "opensea_sync", 0, <<>>))
            /\ NoRaise("opensea_loop")
       ELSE /\ Raise("RuntimeError", 66)
            /\ UNCHANGED <<end_id, token_ids, io>>
    /\ UNCHANGED <<env, totalSupply, store, fromBlock, start_id, invoked, start_arg,
                   H, filterLocals, kudos_enum, more_kudos, r>>

\* what the events API can answer to the request for token_id
Bodies == {"ok", "not_json", "no_asset_events", "no_events", "no_token_id", "no_txhash"}

Responses(token_id) ==
    [status : {200, 500}, body : Bodies,
     token_id : {PyStr(token_id), DecStr(1), <<"x">>}, txhash : {hex(<<171>>)}]

\* the status check left out
RaisesForStatusNever(status) == FALSE

\* r.raise_for_status() (line 80): HTTPError on a 4xx or 5xx status
RaisesForStatus(status) == status >= 400

\* lines 81-84: the exception the payload makes the loop body raise, "none" if none
PayloadError(resp) ==
    CASE resp.body = "not_json" -> <<"ValueError", 81>>
      [] resp.body = "no_asset_events" -> <<"KeyError", 81>>
      [] resp.body = "no_events" -> <<"IndexError", 81>>
      [] resp.body = "no_token_id" -> <<"KeyError", 81>>
      [] resp.body = "no_txhash" -> <<"KeyError", 82>>
      [] resp.body = "ok" ->
           IF PyIntValid(resp.token_id) THEN <<"none", 0>> ELSE <<"ValueError", 84>>

\* the exception one response makes the loop body raise before sync_db is called
ResponseError(resp) ==
    IF RaisesForStatus(resp.status) THEN <<"HTTPError", 80>> ELSE PayloadError(resp)

\* lines 74-84: one iteration of the for loop; sync_db may raise
OpenseaSyncStep ==
    /\ pc = "opensea_loop"
    /\ token_ids # <<>>
    /\ token_ids' = Tail(token_ids)
    /\ \E resp \in Responses(Head(token_ids)), raised \in BOOLEAN :
         /\ r' = resp
         /\ IF ResponseError(resp)[1] # "none"
            THEN /\ ~raised
                 /\ io' = Append(io, Io("http", "opensea_sync", Head(token_ids), <<>>))
                 /\ Raise(ResponseError(resp)[1], ResponseError(resp)[2])
                 /\ UNCHANGED store
            ELSE IF raised
            THEN /\ io' = Append(io, Io("http", "opensea_sync", Head(token_ids), <<>>))
                 /\ Raise("LedgerError", 84)
                 /\ UNCHANGED store
            ELSE /\ io' = io \o <<Io("http", "opensea_sync", Head(token_ids), <<>>),
                                  Io("upsert", "opensea_sync", PyIntVal(resp.token_id),
                                     resp.txhash)>>
                 /\ store' = Upsert(store, PyIntVal(resp.token_id))
                 /\ NoRaise("opensea_loop")
    /\ UNCHANGED <<env, totalSupply, fromBlock, start_id, invoked, start_arg, H,
                   end_id, filterLocals, kudos_enum, more_kudos>>

\* the for loop is exhausted and opensea_sync returns
OpenseaSyncDone ==
    /\ pc = "opensea_loop"
    /\ token_ids = <<>>
    /\ NoRaise("done")
    /\ UNCHANGED <<env, totalSupply, store, fromBlock, start_id, invoked, start_arg,
                   H, filterLocals, idLocals, openseaLocals, io>>

-----------------------------------------------------------------------------
\* The chain: a kudos is minted while the command runs

Mint ==
    /\ pc \notin Terminal
    /\ pc # "handle"
    /\ totalSupply < MaxSupply
    /\ totalSupply' = totalSupply + 1
    /\ UNCHANGED <<env, store, pc, exc, excLine, fromBlock, start_id, invoked,
                   start_arg, H, filterLocals, idLocals, openseaLocals, io>>

-----------------------------------------------------------------------------
Run ==
    \/ HandleFilter
    \/ HandleOther
    \/ FilterSyncStart
    \/ FilterSyncStep
    \/ FilterSyncDone
    \/ IdSyncStart
    \/ IdSyncStep
    \/ IdSyncDone
    \/ OpenseaSyncStart
    \/ OpenseaSyncStep
    \/ OpenseaSyncDone

Next == Run \/ Mint

Spec == Init /\ [][Next]_vars

\* The runs of the id method alone. The command is a sequential program that
\* keeps executing until it returns or raises, hence the weak fairness of its steps.
IdInit == Init /\ options.syncmethod = "id"

IdRun ==
    \/ HandleOther
    \/ IdSyncStart
    \/ IdSyncStep
    \/ IdSyncDone

IdNext == IdRun \/ Mint

IdFairSpec == IdInit /\ [][IdNext]_vars /\ WF_vars(IdRun)

-----------------------------------------------------------------------------
\* Properties

Max2(a, b) == IF a > b THEN a ELSE b

StrategyOf(method) ==
    CASE method = "filter" -> "filter_sync"
      [] method = "id" -> "id_sync"
      [] method = "opensea" -> "opensea_sync"

\* C1: a run of id_sync that returns, started at s with s <= U for the supply U
\* it read, has upserted exactly the ids s, s+1, ..., U, each once, in that order.
C1_IdSyncUpsertsRangeInOrder ==
    (invoked = "id_sync" /\ pc = "done" /\ start_arg <= end_id)
        => Ids(Upserts) = Range(start_arg, end_id)

C1_Witness ==
    /\ invoked = "id_sync"
    /\ pc = "done"
    /\ start_arg < end_id
    /\ Len(Upserts) >= 2

\* C2: a --rewind larger than the head block (filter) or the total supply (id,
\* opensea) is rejected: the run ends in an error, no strategy is invoked and
\* nothing is upserted.
C2_RewindBeyondHeadRejected ==
    (pc # "handle" /\ options.rewind.some /\ options.rewind.v > H)
        => (pc = "error" /\ invoked = "none" /\ Upserts = <<>>)

\* C3: a run that ends in a configuration error (lines 127, 131, 137, 66) has
\* performed no ledger call, no store query, no HTTP request and no upsert.
C3_ConfigErrorBeforeAnyIo ==
    (pc = "error" /\ excLine \in {127, 131, 137, 66})
        => (io = <<>> /\ store = store0)

\* C4: with --rewind R and 0 <= R <= H, the selected strategy is invoked with
\* start H - R (R = 0 included).
C4_RewindStartsAtHeadMinusR ==
    (pc # "handle" /\ options.rewind.some
        /\ 0 <= options.rewind.v /\ options.rewind.v <= H)
        => /\ invoked = StrategyOf(options.syncmethod)
           /\ IF options.syncmethod = "filter"
              THEN fromBlock = Num(H - options.rewind.v)
              ELSE start_arg = H - options.rewind.v

\* C5: with --catchup and method id or opensea, when the store's maximum known
\* id is M the strategy is invoked with start M, and the first id the run
\* processes is M.
C5_CatchupStartsAtMaxKnownId ==
    (pc # "handle" /\ options.catchup /\ options.syncmethod \in {"id", "opensea"}
        /\ store0 # {})
        => /\ invoked = StrategyOf(options.syncmethod)
           /\ start_arg = MaxKnownId(store0).v
           /\ (invoked = "id_sync" /\ Upserts # <<>>)
                  => Upserts[1].id = MaxKnownId(store0).v
           /\ Requests # <<>> => Requests[1].id = MaxKnownId(store0).v

C5_Witness ==
    /\ options.catchup
    /\ options.syncmethod = "id"
    /\ store0 # {}
    /\ pc = "done"
    /\ Upserts # <<>>

\* C6: in opensea_sync, when the answer to the request for id k has a non-success
\* status or a payload without the first event's token id and transaction hash,
\* the run aborts at k: the requests made are exactly start..k, the request for
\* k is the last I/O of the run, only the k - start earlier requests were
\* followed by an upsert, and those upserts are in the store.
C6_OpenseaAbortsAtFailedId ==
    (invoked = "opensea_sync" /\ Requests # <<>>
        /\ (r.status \notin 200..299 \/ r.body # "ok"))
        => /\ pc = "error"
           /\ Ids(Requests) = Range(start_arg, Requests[Len(Requests)].id)
           /\ io[Len(io)].op = "http"
           /\ Len(Upserts) = Len(Requests) - 1
           /\ \A i \in 1..Len(Upserts) : Upserts[i].id \in store

C6_Witness ==
    /\ invoked = "opensea_sync"
    /\ pc = "error"
    /\ r.status = 500
    /\ r.body = "ok"
    /\ Len(Upserts) >= 1

\* C7: with method filter and a decimal --start, filter_sync is invoked with
\* that block as fromBlock.
C7_DecimalStartAccepted ==
    (pc # "handle" /\ options.syncmethod = "filter"
        /\ options.start.some /\ isdigit(options.start.v))
        => (invoked = "filter_sync" /\ exc = "none" /\ fromBlock # Unbound)

IdSyncIo == SelectSeq(io, ByIdSync)

C8_ReadsSupplyOnce ==
    (invoked = "id_sync" /\ pc # "id_sync")
        => /\ IdSyncIo # <<>>
           /\ IdSyncIo[1].op = "totalSupply"
           /\ \A i \in 2..Len(IdSyncIo) :
                  /\ IdSyncIo[i].op = "upsert"
                  /\ IdSyncIo[i].id <= Max2(start_arg, end_id)
           /\ Len(IdSyncIo) - 1 <= Max2(1, end_id - start_arg + 1)
           /\ (pc = "id_loop" /\ more_kudos /\ Len(IdSyncIo) > 1) => kudos_enum <= end_id

\* C8: id_sync reads the total supply once, before its first upsert, and always
\* terminates: the loop ends at the first test that finds the counter above the
\* supply U it read, and a supply that grows during the run adds no id.
C8_IdSyncReadsOnceAndTerminates ==
    /\ [] C8_ReadsSupplyOnce
    /\ (invoked = "id_sync") ~> (pc \in Terminal)

C8_Witness ==
    /\ invoked = "id_sync"
    /\ pc = "done"
    /\ totalSupply > end_id
    /\ Len(Upserts) >= 2

\* C9: when the event filter returns no Transfer event, filter_sync upserts
\* nothing, leaves the store as it was and returns without an error.
C9_EmptyEventSetIsNoop ==
    (invoked = "filter_sync" /\ pc \in {"filter_loop", "done", "error"}
        /\ entries = <<>>)
        => (Upserts = <<>> /\ store = store0 /\ exc = "none" /\ pc # "error")

C9_Witness ==
    /\ invoked = "filter_sync"
    /\ pc = "done"
    /\ entries = <<>>

\* C10: id_sync upserts only ids in [start, upper] for the supply upper it read;
\* when start > upper nothing is upserted.
C10_IdSyncStaysInRange ==
    (invoked = "id_sync" /\ pc # "id_sync")
        => \A i \in 1..Len(Upserts) : Upserts[i].id \in start_arg..end_id

====
